---- MODULE Spec2Model ----
(***************************************************************************)
(* Verification model of portal-co/asm-common:                             *)
(*   - the fixed-word bit-field codec   (types/code.rs, InstCodeI4)        *)
(*   - the byte-buffer codec            (types/code.rs, InstCodeSlice)     *)
(*   - the permission buffer and sink   (types/perms.rs)                   *)
(*   - constants                        (types/value.rs, Constant)        *)
(*   - register numbers                 (types/reg.rs, Reg)               *)
(*   - marker splitting                 (ratchet.rs, Ratchet::split)      *)
(* Unsigned machine words are modelled as the set of their set bit         *)
(* positions (a u32 is a subset of 0..31, a u64 a subset of 0..63), so     *)
(* that shifts, masks and wrap-around keep their exact width.              *)
(***************************************************************************)
EXTENDS Integers, Sequences, FiniteSets, TLC

VARIABLES
    overflowChecks, \* build profile: TRUE = overflow checks on (debug), FALSE = wrapping (release)
    cpc,            \* fixed-word codec: "init" | "with" | "extract" | "rawext"
    cw,             \* fixed-word codec: the word InstCodeI4(w)
    cranges,        \* fixed-word codec: the range list
    cval,           \* fixed-word codec: the value handed to with
    cwith,          \* fixed-word codec: outcome of with
    cext,           \* fixed-word codec: outcome of extract
    spc,            \* byte-buffer codec: "init" | "with" | "extract" | "rawext"
    sbuf,           \* byte-buffer codec: the buffer InstCodeSlice(buf)
    sranges,        \* byte-buffer codec: the byte-range list
    sval,           \* byte-buffer codec: the 64-bit value handed to with
    swith,          \* byte-buffer codec: outcome of with
    sext,           \* byte-buffer codec: outcome of extract
    ppc,            \* permission buffer: "args" | "ready" | "rejected" | "panic"
    pargs,          \* permission buffer: the parts handed to new
    pnew,           \* permission buffer: what InputRef::new and Input::new returned
    buf,            \* permission buffer: the owned Input
    view,           \* permission buffer: the borrowed InputRef
    pop,            \* permission buffer: the operation applied last
    pcall,          \* permission buffer: that operation's arguments, receiver and result
    wpc,            \* write_all: "start" | "loop" | "done" | "err" | "panic"
    wsink,          \* write_all: the sink (its accumulated input and its behaviour)
    wsink0,         \* write_all: what the sink had accumulated when write_all was called
    winput,         \* write_all: the view handed to write_all
    wview,          \* write_all: the loop variable i
    wlast,          \* write_all: the last call of write (what was offered, what came back)
    kpc,            \* constant: "init" | "made"
    kendian,        \* constant: native endianness of the target, "little" | "big"
    klog2,          \* constant: Bitness.log2
    kin,            \* constant: where the constant comes from: bytes, bits or a data literal
    kconst,         \* constant: the Option<Constant> obtained
    kbytes,         \* constant: what bytes(b) yielded
    kbits,          \* constant: what bits(b) yielded
    kread,          \* constant: which of bytes(b), bits(b) have been read
    gpc,            \* register: "init" | "applied"
    greg,           \* register: the Reg the transforms start from
    gcur,           \* register: the Reg obtained so far
    gops,           \* register: the transforms applied, in order
    hpc,            \* ratchet split: "iter" | "end" | "panic"
    hin,            \* ratchet split: how the input was put together (seed, chunks, tail, bytes)
    hseed,          \* ratchet split: the seed of the Ratchet the iterator owns
    hrest,          \* ratchet split: the slice a the iterator still holds
    hout,           \* ratchet split: the chunks yielded so far
    hlast           \* ratchet split: the last call of the iterator (slice, marker, result)

codecVars == <<cpc, cw, cranges, cval, cwith, cext>>
sliceVars == <<spc, sbuf, sranges, sval, swith, sext>>
permVars == <<ppc, pargs, pnew, buf, view, pop, pcall>>
waVars == <<wpc, wsink, wsink0, winput, wview, wlast>>
constVars == <<kpc, kendian, klog2, kin, kconst, kbytes, kbits, kread>>
regVars == <<gpc, greg, gcur, gops>>
ratVars == <<hpc, hin, hseed, hrest, hout, hlast>>
vars == <<overflowChecks, codecVars, sliceVars, permVars, waVars, constVars, regVars, ratVars>>

(***************************************************************************)
(* Machine-word arithmetic on bit sets.                                    *)
(***************************************************************************)
U32 == 32

Word(w) == 0 .. (w - 1)

\* x << n on a w-bit word once the shift amount has been wrapped (n % w):
\* bits shifted past the top are lost.
Shl(x, n, w) == {i + (n % w) : i \in x} \cap Word(w)

\* x >> n on a w-bit word, shift amount wrapped.
Shr(x, n, w) == {i - (n % w) : i \in x} \cap Word(w)

\* !x
Not(x, w) == Word(w) \ x

MinBit(x) == CHOOSE m \in x : \A k \in x : m <= k

\* x - 1 (wrapping).
Dec(x, w) == IF x = {} THEN Word(w)
             ELSE (x \ {MinBit(x)}) \cup (0 .. (MinBit(x) - 1))

\* v & ((1 << n) - 1) as a mathematical mask (n may equal the word width).
LowBits(v, n) == {i \in v : i < n}

\* the bit set of a natural number below 2^31
FromNat(n) == {i \in 0 .. 30 : (n \div (2 ^ i)) % 2 = 1}

(***************************************************************************)
(* InstCodeI4::with and InstCodeI4::extract.                               *)
(* A range is <<start, end>>.  The fold state is [panic, code, len].       *)
(***************************************************************************)
RStart(r) == r[1]
REnd(r) == r[2]
RWidth(r) == r[2] - r[1]

\* mask = ((1u32 << (r.end - r.start)) - 1) << r.start
I4Mask(r) == Shl(Dec(Shl({0}, RWidth(r), U32), U32), RStart(r), U32)

\* the shifts of one loop iteration that overflow (shift amount >= 32)
I4ShiftOverflow(r, len) == RWidth(r) >= U32 \/ RStart(r) >= U32 \/ len >= U32

\* the loop body with the final "& mask" forgotten
I4WithStepNoMask(st, r, val, oc) ==
    IF st.panic \/ (oc /\ I4ShiftOverflow(r, st.len))
    THEN [panic |-> TRUE, code |-> st.code, len |-> st.len]
    ELSE [panic |-> FALSE,
          code  |-> (st.code \cap Not(I4Mask(r), U32))
                    \cup Shl(Shr(val, st.len, U32), RStart(r), U32),
          len   |-> st.len + RWidth(r)]

\* one iteration of the loop of InstCodeI4::with
I4WithStep(st, r, val, oc) ==
    IF st.panic \/ (oc /\ I4ShiftOverflow(r, st.len))
    THEN [panic |-> TRUE, code |-> st.code, len |-> st.len]
    ELSE [panic |-> FALSE,
          code  |-> (st.code \cap Not(I4Mask(r), U32))
                    \cup (Shl(Shr(val, st.len, U32), RStart(r), U32) \cap I4Mask(r)),
          len   |-> st.len + RWidth(r)]

RECURSIVE I4WithFold(_, _, _, _)
I4WithFold(st, inst, val, oc) ==
    IF inst = <<>> THEN st
    ELSE I4WithFold(I4WithStep(st, Head(inst), val, oc), Tail(inst), val, oc)

\* InstCodeI4(w).with(inst, val)
I4With(w, inst, val, oc) ==
    I4WithFold([panic |-> FALSE, code |-> w, len |-> 0], inst, val, oc)

\* one iteration of the loop of InstCodeI4::extract; st = [panic, val, len]
I4ExtractStep(st, r, w, oc) ==
    IF st.panic \/ (oc /\ I4ShiftOverflow(r, st.len))
    THEN [panic |-> TRUE, val |-> st.val, len |-> st.len]
    ELSE [panic |-> FALSE,
          val   |-> st.val \cup Shl(Shr(w \cap I4Mask(r), RStart(r), U32), st.len, U32),
          len   |-> st.len + RWidth(r)]

RECURSIVE I4ExtractFold(_, _, _, _)
I4ExtractFold(st, list, w, oc) ==
    IF list = <<>> THEN st
    ELSE I4ExtractFold(I4ExtractStep(st, Head(list), w, oc), Tail(list), w, oc)

\* InstCodeI4(w).extract(list)
I4Extract(w, list, oc) ==
    I4ExtractFold([panic |-> FALSE, val |-> {}, len |-> 0], list, w, oc)

(***************************************************************************)
(* InstCodeSlice::extract and InstCodeSlice::with.                         *)
(* The buffer is a sequence of bytes 0..255 (1-based here, 0-based in the  *)
(* source); the value is a u64.                                            *)
(***************************************************************************)
U64 == 64

\* b as u64
ByteBits(b) == {j \in 0 .. 7 : (b \div (2 ^ j)) % 2 = 1}

RECURSIVE BitsByteFrom(_, _)
BitsByteFrom(x, j) ==
    IF j > 7 THEN 0 ELSE (IF j \in x THEN 2 ^ j ELSE 0) + BitsByteFrom(x, j + 1)

\* (x & 0xff) as u8
BitsByte(x) == BitsByteFrom(x, 0)

\* the byte index bytes[i >> 3] of the loop variable i
SliceIndex(i) == i \div 8

\* the shift amount (i << 3) of the loop variable i
SliceShift(i) == i * 8

\* bytes[i >> 3] panics (bounds check), or the shift by (i << 3) overflows
SliceAccessPanics(i, bytes, oc) ==
    SliceIndex(i) >= Len(bytes) \/ (oc /\ SliceShift(i) >= U64)

\* for i in r { part |= (bytes[i >> 3] as u64) << (i << 3) }; st = [panic, part]
RECURSIVE SliceGather(_, _, _, _, _)
SliceGather(st, i, end, bytes, oc) ==
    IF i >= end \/ st.panic THEN st
    ELSE IF SliceAccessPanics(i, bytes, oc)
         THEN [panic |-> TRUE, part |-> st.part]
         ELSE SliceGather(
                [panic |-> FALSE,
                 part  |-> st.part \cup
                           Shl(ByteBits(bytes[SliceIndex(i) + 1]), SliceShift(i), U64)],
                i + 1, end, bytes, oc)

\* for i in r { bytes[i >> 3] = ((part >> (i << 3)) & 0xff) as u8 }; st = [panic, bytes]
RECURSIVE SliceScatter(_, _, _, _, _)
SliceScatter(st, i, end, part, oc) ==
    IF i >= end \/ st.panic THEN st
    ELSE IF SliceAccessPanics(i, st.bytes, oc)
         THEN [panic |-> TRUE, bytes |-> st.bytes]
         ELSE SliceScatter(
                [panic |-> FALSE,
                 bytes |-> [st.bytes EXCEPT ![SliceIndex(i) + 1] =
                               BitsByte(Shr(part, SliceShift(i), U64))]],
                i + 1, end, part, oc)

\* one iteration of the outer loop of InstCodeSlice::extract; st = [panic, val, len]
SliceExtractStep(st, r, bytes, oc) ==
    LET g == SliceGather([panic |-> FALSE, part |-> {}], RStart(r), REnd(r), bytes, oc)
    IN  IF st.panic \/ g.panic \/ (oc /\ st.len >= U64)
        THEN [panic |-> TRUE, val |-> st.val, len |-> st.len]
        ELSE [panic |-> FALSE,
              val   |-> st.val \cup Shl(g.part, st.len, U64),
              len   |-> st.len + RWidth(r) * 8]

RECURSIVE SliceExtractFold(_, _, _, _)
SliceExtractFold(st, list, bytes, oc) ==
    IF list = <<>> THEN st
    ELSE SliceExtractFold(SliceExtractStep(st, Head(list), bytes, oc), Tail(list), bytes, oc)

\* InstCodeSlice(bytes).extract(list)
SliceExtract(bytes, list, oc) ==
    SliceExtractFold([panic |-> FALSE, val |-> {}, len |-> 0], list, bytes, oc)

\* mask = ((1u64 << ((r.end - r.start) * 8)) - 1) << (r.start * 8)
SliceMask(r) == Shl(Dec(Shl({0}, RWidth(r) * 8, U64), U64), RStart(r) * 8, U64)

\* the shifts of the mask and value lines that overflow (shift amount >= 64)
SliceShiftOverflow(r, len) ==
    RWidth(r) * 8 >= U64 \/ RStart(r) * 8 >= U64 \/ len >= U64

\* one iteration of the outer loop of InstCodeSlice::with; st = [panic, bytes, len]
SliceWithStep(st, r, val, oc) ==
    LET g    == SliceGather([panic |-> FALSE, part |-> {}], RStart(r), REnd(r), st.bytes, oc)
        part == (g.part \cap Not(SliceMask(r), U64))
                \cup (Shl(Shr(val, st.len, U64), RStart(r) * 8, U64) \cap SliceMask(r))
        sc   == SliceScatter([panic |-> FALSE, bytes |-> st.bytes],
                             RStart(r), REnd(r), part, oc)
    IN  IF st.panic \/ g.panic \/ (oc /\ SliceShiftOverflow(r, st.len)) \/ sc.panic
        THEN [panic |-> TRUE, bytes |-> st.bytes, len |-> st.len]
        ELSE [panic |-> FALSE, bytes |-> sc.bytes, len |-> st.len + RWidth(r) * 8]

RECURSIVE SliceWithFold(_, _, _, _)
SliceWithFold(st, inst, val, oc) ==
    IF inst = <<>> THEN st
    ELSE SliceWithFold(SliceWithStep(st, Head(inst), val, oc), Tail(inst), val, oc)

\* InstCodeSlice(bytes).with(inst, val)
SliceWith(bytes, inst, val, oc) ==
    SliceWithFold([panic |-> FALSE, bytes |-> bytes, len |-> 0], inst, val, oc)

(***************************************************************************)
(* Permission buffer (types/perms.rs).  An InputRef and an Input are both  *)
(* records [code, r, w, x, nj] of five sequences; nothing in the record    *)
(* forces the five lengths to agree.                                       *)
(***************************************************************************)
MinOf(a, b) == IF a <= b THEN a ELSE b

EmptyInput == [code |-> <<>>, r |-> <<>>, w |-> <<>>, x |-> <<>>, nj |-> <<>>]

None == [some |-> FALSE, val |-> EmptyInput]
Some(v) == [some |-> TRUE, val |-> v]

\* InputRef::new with the length of nj left out of the check
InputRefNewSkipNj(code, perms) ==
    IF \A a \in {perms.r, perms.w, perms.x} : Len(a) = Len(code)
    THEN Some([code |-> code, r |-> perms.r, w |-> perms.w, x |-> perms.x, nj |-> perms.nj])
    ELSE None

\* InputRef::new(code, perms)
InputRefNew(code, perms) ==
    IF \A a \in {perms.r, perms.w, perms.x, perms.nj} : Len(a) = Len(code)
    THEN Some([code |-> code, r |-> perms.r, w |-> perms.w, x |-> perms.x, nj |-> perms.nj])
    ELSE None

\* Input::new(code, perms)
InputNew(code, perms) ==
    IF \A a \in {perms.r, perms.w, perms.x, perms.nj} : Len(a) = Len(code)
    THEN Some([code |-> code, r |-> perms.r, w |-> perms.w, x |-> perms.x, nj |-> perms.nj])
    ELSE None

\* slice[a..b] of a slice of length n: panics unless a <= b <= n
IndexPanics(n, a, b) == a > b \/ b > n

\* subref(a..=b): the end of the range taken as inclusive
SubrefInclusive(i, a, b) ==
    IF \E s \in {i.code, i.r, i.w, i.x, i.nj} : IndexPanics(Len(s), a, b + 1)
    THEN [panic |-> TRUE, val |-> i]
    ELSE [panic |-> FALSE,
          val |-> [code |-> SubSeq(i.code, a + 1, b + 1),
                   r    |-> SubSeq(i.r, a + 1, b + 1),
                   w    |-> SubSeq(i.w, a + 1, b + 1),
                   x    |-> SubSeq(i.x, a + 1, b + 1),
                   nj   |-> SubSeq(i.nj, a + 1, b + 1)]]

\* InputRef::subref(a..b)
Subref(i, a, b) ==
    IF IndexPanics(Len(i.code), a, b) \/ IndexPanics(Len(i.r), a, b)
       \/ IndexPanics(Len(i.w), a, b) \/ IndexPanics(Len(i.x), a, b)
       \/ IndexPanics(Len(i.nj), a, b)
    THEN [panic |-> TRUE, val |-> i]
    ELSE [panic |-> FALSE,
          val |-> [code |-> SubSeq(i.code, a + 1, b),
                   r    |-> SubSeq(i.r, a + 1, b),
                   w    |-> SubSeq(i.w, a + 1, b),
                   x    |-> SubSeq(i.x, a + 1, b),
                   nj   |-> SubSeq(i.nj, a + 1, b)]]

\* slice[a..] of a slice s: panics unless a <= len
TailFrom(s, a) == SubSeq(s, a + 1, Len(s))

\* subref(a..) with the start clamped to the length instead of bounds-checked
SubrefFromClamped(i, a) ==
    LET c == IF a > Len(i.code) THEN Len(i.code) ELSE a
    IN  [panic |-> FALSE,
         val |-> [code |-> TailFrom(i.code, c),
                  r    |-> TailFrom(i.r, c),
                  w    |-> TailFrom(i.w, c),
                  x    |-> TailFrom(i.x, c),
                  nj   |-> TailFrom(i.nj, c)]]

\* InputRef::subref(a..)
SubrefFrom(i, a) ==
    IF a > Len(i.code) \/ a > Len(i.r) \/ a > Len(i.w) \/ a > Len(i.x) \/ a > Len(i.nj)
    THEN [panic |-> TRUE, val |-> i]
    ELSE [panic |-> FALSE,
          val |-> [code |-> TailFrom(i.code, a),
                   r    |-> TailFrom(i.r, a),
                   w    |-> TailFrom(i.w, a),
                   x    |-> TailFrom(i.x, a),
                   nj   |-> TailFrom(i.nj, a)]]

\* the shortest of the five zipped iterators ends the zip
ZipLen(i) == MinOf(Len(i.code), MinOf(MinOf(Len(i.r), Len(i.w)), MinOf(Len(i.x), Len(i.nj))))

\* iter() with the tags r and w zipped in the wrong order
InputIterSwapRW(i) ==
    [k \in 1 .. ZipLen(i) |->
        [c |-> i.code[k], r |-> i.w[k], w |-> i.r[k], x |-> i.x[k], nj |-> i.nj[k]]]

\* InputRef::iter: the (u8, Perms<bool>) tuples it yields, in order
InputIter(i) ==
    [k \in 1 .. ZipLen(i) |->
        [c |-> i.code[k], r |-> i.r[k], w |-> i.w[k], x |-> i.x[k], nj |-> i.nj[k]]]

\* InputRef::nest
Nest(i) == [code |-> i.code, r |-> i.r, w |-> i.w, x |-> i.x, nj |-> i.nj]

\* InputRef::to_owned
ToOwned(i) == [code |-> i.code, r |-> i.r, w |-> i.w, x |-> i.x, nj |-> i.nj]

\* Input::as_ref
AsRef(b) == [code |-> b.code, r |-> b.r, w |-> b.w, x |-> b.x, nj |-> b.nj]

\* the body of the loop of Input::extend with the push onto nj forgotten
InputPushNoNj(b, item) ==
    [code |-> Append(b.code, item.c),
     r    |-> Append(b.r, item.r),
     w    |-> Append(b.w, item.w),
     x    |-> Append(b.x, item.x),
     nj   |-> b.nj]

\* the body of the loop of Input::extend: one push onto each backing sequence
InputPush(b, item) ==
    [code |-> Append(b.code, item.c),
     r    |-> Append(b.r, item.r),
     w    |-> Append(b.w, item.w),
     x    |-> Append(b.x, item.x),
     nj   |-> Append(b.nj, item.nj)]

\* extend that pushes the items in reverse order
RECURSIVE InputExtendReversed(_, _)
InputExtendReversed(b, items) ==
    IF items = <<>> THEN b
    ELSE InputPush(InputExtendReversed(b, Tail(items)), Head(items))

\* Input::extend(items)
RECURSIVE InputExtend(_, _)
InputExtend(b, items) ==
    IF items = <<>> THEN b ELSE InputExtend(InputPush(b, Head(items)), Tail(items))

\* <Input as InputStream>::write(i): the new buffer and the count returned
InputWrite(b, i) ==
    [buf |-> [code |-> b.code \o i.code,
              r    |-> b.r \o i.r,
              w    |-> b.w \o i.w,
              x    |-> b.x \o i.x,
              nj   |-> b.nj \o i.nj],
     x   |-> Len(i.code)]

\* i = i.subref(x..) with the count ignored: the whole view is dropped
WriteAllAdvanceWhole(i, x) == SubrefFrom(i, Len(i.code))

\* i = i.subref(x..) in the loop of write_all
WriteAllAdvance(i, x) == SubrefFrom(i, x)

\* the `?` of write_all dropped: an Err of write is taken for progress
WriteAllControlNoTry(err, oob) == IF oob /\ ~err THEN "panic" ELSE "loop"

\* where write_all goes after one write: `?` returns the Err, subref(x..)
\* panics when x is past the end of the view, otherwise the loop goes on
WriteAllControl(err, oob) == IF err THEN "err" ELSE IF oob THEN "panic" ELSE "loop"

\* InputStream::write_all on an Input sink, run to completion (Input::write
\* cannot fail); [panic, buf]
RECURSIVE InputWriteAll(_, _)
InputWriteAll(b, i) ==
    IF ~(Len(i.code) > 0) THEN [panic |-> FALSE, buf |-> b]
    ELSE LET wr  == InputWrite(b, Nest(i))
             nxt == WriteAllAdvance(i, wr.x)
         IN  IF nxt.panic THEN [panic |-> TRUE, buf |-> wr.buf]
             ELSE InputWriteAll(wr.buf, nxt.val)

(***************************************************************************)
(* A sink of the InputStream trait, as write_all sees it.  The trait fixes *)
(* only the signature of write; a sink is described by what it does with   *)
(* an offered view:                                                        *)
(*   k      it consumes (appends) at most k bytes of the offered view,     *)
(*   extra  it reports extra more bytes than it consumed,                  *)
(*   failAt it returns Err on its failAt-th call (0: never),               *)
(*   calls  the calls made so far (saturating at MaxCalls),                *)
(*   acc    what it has accumulated.                                       *)
(***************************************************************************)
MaxCalls == 4

Prefix(i, n) ==
    [code |-> SubSeq(i.code, 1, n), r |-> SubSeq(i.r, 1, n), w |-> SubSeq(i.w, 1, n),
     x |-> SubSeq(i.x, 1, n), nj |-> SubSeq(i.nj, 1, n)]

\* InputStream::write(i) of such a sink: [sink, err, x]
SinkWrite(sink, i) ==
    LET n     == MinOf(sink.k, Len(i.code))
        calls == MinOf(sink.calls + 1, MaxCalls)
    IN  IF sink.failAt # 0 /\ sink.calls + 1 = sink.failAt
        THEN [sink |-> [sink EXCEPT !.calls = calls], err |-> TRUE, x |-> 0]
        ELSE [sink |-> [sink EXCEPT !.calls = calls,
                                    !.acc = InputWrite(sink.acc, Prefix(i, n)).buf],
              err  |-> FALSE,
              x    |-> n + sink.extra]

(***************************************************************************)
(* Constant (types/value.rs): eight u64 words in native endianness.        *)
(* A Constant is a sequence of eight u64 bit sets; iterators are finite    *)
(* sequences.                                                              *)
(***************************************************************************)
\* 512 / 8
StoreBytes == 64

StoreWords == 8

\* 1 << (b.log2 - 2): the exponent off by one
NBytesDouble(log2) == 2 ^ (log2 - 2)

\* 1 << (b.log2 - 3)
NBytes(log2) == 2 ^ (log2 - 3)

\* 1 << b.log2
NBits(log2) == 2 ^ log2

Take(s, n) == SubSeq(s, 1, MinOf(n, Len(s)))

RECURSIVE Flatten(_)
Flatten(ss) == IF ss = <<>> THEN <<>> ELSE Head(ss) \o Flatten(Tail(ss))

\* iter.batching(|i| array_init::from_iter(i)) into arrays of n items: full
\* arrays while the iterator lasts; a short tail ends the iteration
Batches(s, n) == [k \in 1 .. (Len(s) \div n) |-> SubSeq(s, n * (k - 1) + 1, n * k)]

\* the position in a u64 of byte j (1..8) of its native-endian byte array
NeByteShift(j, endian) == IF endian = "little" THEN 8 * (j - 1) ELSE 8 * (8 - j)

\* u64::from_le_bytes(a), whatever the target
FromLeBytes(a, endian) ==
    UNION {{NeByteShift(j, "little") + b : b \in ByteBits(a[j])} : j \in 1 .. 8}

\* u64::from_ne_bytes(a)
FromNeBytes(a, endian) ==
    UNION {{NeByteShift(j, endian) + b : b \in ByteBits(a[j])} : j \in 1 .. 8}

\* a.to_ne_bytes()
ToNeBytes(w, endian) ==
    [j \in 1 .. 8 |-> BitsByte(Shr(w, NeByteShift(j, endian), U64))]

ZeroData == [k \in 1 .. StoreWords |-> {}]

NoConstant == [some |-> FALSE, data |-> ZeroData]
SomeConstant(d) == [some |-> TRUE, data |-> d]

\* once(0u8).cycle().take(64 - n + 1): one zero too many
ZeroFillOneMore(log2) == [k \in 1 .. (StoreBytes - NBytes(log2) + 1) |-> 0]

\* once(0u8).cycle().take((512 / 8) - (1 << (b.log2 - 3)))
ZeroFill(log2) == [k \in 1 .. (StoreBytes - NBytes(log2)) |-> 0]

\* Constant::from_bytes(b, i)
ConstFromBytes(log2, i, endian) ==
    LET arrays == Batches(i \o ZeroFill(log2), 8)
        words  == [k \in 1 .. Len(arrays) |-> FromNeBytes(arrays[k], endian)]
    IN  IF Len(words) < StoreWords THEN NoConstant
        ELSE SomeConstant(SubSeq(words, 1, StoreWords))

\* the fold over the eight bools without .rev(): the first bit ends up highest
RECURSIVE PackByteMsbFirst(_)
PackByteMsbFirst(x) ==
    IF x = <<>> THEN 0
    ELSE (IF Head(x) THEN 2 ^ (Len(x) - 1) ELSE 0) + PackByteMsbFirst(Tail(x))

\* x.into_iter().rev().fold(0, |a, b| (a * 2) + (if b { 1 } else { 0u8 }))
RECURSIVE PackByte(_)
PackByte(x) ==
    IF x = <<>> THEN 0
    ELSE (IF Head(x) THEN 1 ELSE 0) + 2 * PackByte(Tail(x))

\* once(false).cycle().take(8 - (1 << log2) % 8): the 0 => 8 arm forgotten
BitFillNoMatch(log2) == [k \in 1 .. (8 - (NBits(log2) % 8)) |-> FALSE]

\* once(false).cycle().take(8 - (match (1 << b.log2) % 8 { 0 => 8, a => a }))
BitFill(log2) ==
    [k \in 1 .. (8 - (IF NBits(log2) % 8 = 0 THEN 8 ELSE NBits(log2) % 8)) |-> FALSE]

\* Constant::from_bits(b, i)
ConstFromBits(log2, i, endian) ==
    LET groups == Batches(i \o BitFill(log2), 8)
        packed == [k \in 1 .. Len(groups) |-> PackByte(groups[k])]
    IN  ConstFromBytes(log2, packed, endian)

\* Constant::bytes(b)
ConstBytes(data, log2, endian) ==
    Take(Flatten([k \in 1 .. Len(data) |-> ToNeBytes(data[k], endian)]), NBytes(log2))

\* BitArray::<u8, Msb0>::new(a).into_iter()
ByteBoolsMsb0(a) == [j \in 1 .. 8 |-> (a \div (2 ^ (8 - j))) % 2 = 1]

\* BitArray::<u8, Lsb0>::new(a).into_iter()
ByteBools(a) == [j \in 1 .. 8 |-> (a \div (2 ^ (j - 1))) % 2 = 1]

\* Constant::bits(b)
ConstBits(data, log2, endian) ==
    LET bs == ConstBytes(data, log2, endian)
    IN  Take(Flatten([k \in 1 .. Len(bs) |-> ByteBools(bs[k])]), NBits(log2))

(***************************************************************************)
(* Reg (types/reg.rs): a register number, a u8.                            *)
(***************************************************************************)
\* Reg::r32_swap_0_and_31 with the arm 31 => Self(0) left out
R32Swap0And31OneWay(v) ==
    LET m == v % 32
    IN  IF m = 0 THEN 31 ELSE m

\* Reg::r32_swap_0_and_31
R32Swap0And31(v) ==
    LET m == v % 32
    IN  IF m = 0 THEN 31 ELSE IF m = 31 THEN 0 ELSE m

\* Reg::r32 with the mask of a 5-bit field taken for the modulus
R32Mod31(v) == v % 31

\* Reg::r32
R32(v) == v % 32

(***************************************************************************)
(* Ratchet (ratchet.rs).  A seed and a marker are sequences of MarkerLen   *)
(* bytes.  SHA3-256 is tabulated on the seeds the model starts from: each  *)
(* chain lists the successive digests of its seed.                         *)
(***************************************************************************)
MarkerLen == 32

\* Ratchet::from_seed([0u8; 32]) and Ratchet::from_seed([42u8; 32])
SeedZero == [k \in 1 .. MarkerLen |-> 0]

Seed42 == [k \in 1 .. MarkerLen |-> 42]

DigestChainZero ==
    <<<<158, 98, 145, 151, 12, 180, 77, 217, 64, 8, 199, 155, 202, 249, 216, 111,
        24, 180, 180, 155, 165, 178, 160, 71, 129, 219, 113, 153, 237, 59, 158, 78>>,
      <<63, 252, 249, 45, 156, 130, 13, 239, 104, 28, 129, 171, 29, 255, 164, 76,
        49, 102, 83, 154, 221, 180, 69, 199, 115, 25, 33, 175, 105, 188, 232, 199>>,
      <<235, 97, 254, 241, 164, 121, 25, 67, 76, 251, 221, 241, 244, 217, 109, 73,
        45, 100, 105, 70, 45, 99, 97, 5, 199, 201, 193, 252, 208, 34, 218, 44>>,
      <<150, 183, 13, 205, 139, 30, 167, 17, 195, 171, 158, 27, 246, 4, 32, 102,
        244, 31, 44, 65, 35, 127, 72, 219, 243, 123, 189, 179, 94, 100, 171, 120>>,
      <<157, 194, 182, 91, 119, 54, 131, 228, 43, 199, 231, 192, 233, 65, 81, 86,
        114, 75, 39, 160, 72, 172, 242, 158, 131, 20, 117, 54, 58, 224, 247, 35>>,
      <<130, 207, 243, 231, 96, 159, 210, 232, 158, 39, 116, 77, 238, 252, 0, 135,
        109, 61, 197, 184, 237, 31, 225, 174, 127, 152, 111, 45, 143, 33, 170, 1>>,
      <<66, 2, 119, 248, 43, 133, 241, 211, 19, 160, 32, 51, 20, 99, 87, 182,
        162, 138, 162, 128, 26, 89, 210, 127, 133, 175, 1, 107, 98, 245, 74, 235>>,
      <<154, 35, 6, 249, 236, 99, 227, 104, 223, 200, 253, 114, 47, 33, 150, 35,
        84, 168, 236, 64, 158, 203, 120, 108, 66, 183, 5, 180, 2, 142, 84, 253>>,
      <<249, 36, 128, 194, 22, 182, 135, 148, 218, 22, 61, 223, 158, 123, 207, 224,
        134, 253, 221, 126, 249, 42, 138, 238, 221, 105, 133, 66, 26, 207, 54, 184>>>>

DigestChain42 ==
    <<<<209, 71, 132, 193, 67, 12, 141, 68, 58, 152, 103, 10, 230, 225, 212, 115,
        32, 246, 190, 244, 227, 83, 125, 127, 3, 18, 182, 173, 3, 51, 174, 186>>,
      <<252, 156, 11, 224, 199, 224, 167, 127, 72, 209, 132, 69, 65, 199, 155, 169,
        234, 80, 214, 110, 54, 98, 235, 138, 221, 23, 206, 218, 136, 63, 128, 18>>,
      <<5, 255, 22, 164, 199, 156, 125, 119, 84, 170, 120, 119, 225, 177, 217, 76,
        131, 144, 13, 240, 115, 74, 31, 51, 35, 33, 162, 185, 23, 43, 175, 6>>,
      <<136, 222, 131, 199, 239, 131, 70, 180, 163, 210, 88, 55, 242, 2, 37, 41,
        226, 196, 100, 62, 192, 163, 115, 24, 76, 70, 53, 11, 74, 114, 161, 88>>,
      <<173, 14, 70, 92, 56, 240, 106, 203, 11, 30, 50, 79, 68, 200, 96, 60,
        2, 213, 57, 39, 44, 80, 125, 172, 56, 201, 141, 46, 192, 106, 224, 59>>,
      <<180, 89, 41, 161, 36, 98, 139, 21, 60, 29, 137, 110, 225, 50, 23, 157,
        247, 100, 172, 1, 10, 204, 169, 17, 241, 150, 79, 214, 213, 71, 168, 220>>,
      <<193, 4, 96, 8, 143, 27, 75, 64, 88, 175, 110, 130, 41, 250, 163, 120,
        152, 238, 58, 182, 202, 154, 51, 131, 210, 176, 25, 145, 191, 16, 56, 24>>,
      <<187, 45, 216, 195, 133, 119, 53, 55, 50, 206, 203, 82, 57, 23, 134, 9,
        122, 174, 223, 30, 165, 7, 239, 17, 52, 52, 24, 78, 98, 209, 187, 27>>,
      <<165, 111, 122, 71, 127, 13, 254, 186, 36, 241, 176, 215, 38, 174, 169, 137,
        167, 99, 177, 242, 208, 74, 87, 110, 44, 87, 97, 159, 81, 239, 106, 139>>>>

DigestChains == {<<SeedZero>> \o DigestChainZero, <<Seed42>> \o DigestChain42}

\* sha3::Sha3_256::digest(s), on the tabulated seeds
Digest(s) ==
    LET c == CHOOSE c \in DigestChains : \E k \in 1 .. (Len(c) - 1) : c[k] = s
        k == CHOOSE k \in 1 .. (Len(c) - 1) : c[k] = s
    IN  c[k + 1]

\* next() that hands out the seed without hashing it forward
RatchetNextNoAdvance(seed) == [out |-> seed, seed |-> seed]

\* Ratchet::next: the value returned and the new seed
RatchetNext(seed) == [out |-> seed, seed |-> Digest(seed)]

\* the loop of split over the slice a, from index i, looking for n:
\* a[i..][..32] panics when fewer than 32 bytes are left from i
RECURSIVE SplitFind(_, _, _)
SplitFind(a, n, i) ==
    IF Len(a) - i < MarkerLen THEN [kind |-> "panic", i |-> i]
    ELSE IF SubSeq(a, i + 1, i + MarkerLen) = n THEN [kind |-> "found", i |-> i]
    ELSE IF i + 1 = Len(a) THEN [kind |-> "exhausted", i |-> i + 1]
    ELSE SplitFind(a, n, i + 1)

\* one call of the closure of split with a slice a that is not empty:
\* [panic, item, rest, seed]
SplitCall(seed, a) ==
    LET nx == RatchetNext(seed)
        f  == SplitFind(a, nx.out, 0)
    IN  CASE f.kind = "panic" ->
               [panic |-> TRUE, item |-> <<>>, rest |-> a, seed |-> nx.seed, marker |-> nx.out]
          [] f.kind = "exhausted" ->
               [panic |-> FALSE, item |-> a, rest |-> <<>>, seed |-> nx.seed, marker |-> nx.out]
          [] f.kind = "found" ->
               [panic |-> FALSE, item |-> SubSeq(a, 1, f.i),
                rest |-> SubSeq(a, f.i + MarkerLen + 1, Len(a)),
                seed |-> nx.seed, marker |-> nx.out]

(***************************************************************************)
(* Inputs.                                                                 *)
(***************************************************************************)
MaxRanges == 2

Cuts == {0, 4, 20, 28, 32}

BitRanges == {r \in Cuts \X Cuts : r[1] <= r[2]}

SeqsUpTo(S, n) == UNION {[1 .. k -> S] : k \in 0 .. n}

\* three ranges, the first two narrower than the word and together at least
\* as wide: the third is reached with len >= 32
FullRangeLists ==
    {l \in [1 .. 3 -> BitRanges] :
        /\ RWidth(l[1]) < U32
        /\ RWidth(l[2]) < U32
        /\ RWidth(l[1]) + RWidth(l[2]) >= U32}

RangeLists == SeqsUpTo(BitRanges, MaxRanges) \cup FullRangeLists

CodeWords == {{}, Word(U32), FromNat(1515870810)}

CodeValues == {FromNat(2748), Word(U32), FromNat(1)}

MaxSliceRanges == 2

SliceCuts == {0, 1, 2, 8, 9}

ByteRanges == {r \in SliceCuts \X SliceCuts : r[1] <= r[2]}

ByteRangeLists == SeqsUpTo(ByteRanges, MaxSliceRanges)

SliceLens == {0, 1, 2, 9}

\* buffers 0x11, 0x22, 0x33, ... of the lengths above
SliceBuffers == {[i \in 1 .. n |-> (17 * i) % 256] : n \in SliceLens}

SliceValues == {FromNat(8721), Word(U64)}

MaxNewLen == 2

MaxBufLen == 3

MaxExtend == 2

MaxViewLen == 3

MaxChunk == 2

\* (byte, Perms<bool>) tuples; every two of the four tags differ in one of them
Items == {[c |-> 144, r |-> TRUE, w |-> FALSE, x |-> TRUE, nj |-> FALSE],
          [c |-> 195, r |-> TRUE, w |-> TRUE, x |-> FALSE, nj |-> FALSE]}

\* the parts handed to new: five sequences whose lengths are chosen independently
MkParts(base, lens) ==
    [code  |-> [k \in 1 .. lens[1] |-> base[k].c],
     perms |-> [r  |-> [k \in 1 .. lens[2] |-> base[k].r],
                w  |-> [k \in 1 .. lens[3] |-> base[k].w],
                x  |-> [k \in 1 .. lens[4] |-> base[k].x],
                nj |-> [k \in 1 .. lens[5] |-> base[k].nj]]]

PermArgs == {MkParts(base, lens) : base \in [1 .. MaxNewLen -> Items],
                                   lens \in [1 .. 5 -> 0 .. MaxNewLen]}

\* the views write_all is called with: built by InputRef::new from equal-length parts
WaInputs ==
    {InputRefNew(a.code, a.perms).val :
        a \in {MkParts(base, [j \in 1 .. 5 |-> n]) :
                    base \in [1 .. MaxViewLen -> Items], n \in 0 .. MaxViewLen}}

WaSinks ==
    [k : 0 .. MaxChunk, extra : 0 .. 1, failAt : 0 .. 2, calls : {0},
     acc : {EmptyInput, InputExtend(EmptyInput, <<CHOOSE it \in Items : it.w>>)}]

NoCall == [made |-> FALSE, offered |-> EmptyInput, err |-> FALSE, x |-> 0]

MaxExtraBytes == 2

MaxExtraBits == 2

\* Bitness.log2 for 8 .. 512 bits
ConstLog2s == 3 .. 9

\* byte sources 1, 2, 3, ... and 237, 18, 55, ... of a given length
ByteSources(n) == {[i \in 1 .. n |-> i % 256], [i \in 1 .. n |-> (37 * i + 200) % 256]}

\* the lengths of the byte sources tried against a width of n bytes
ByteSourceLens(n) ==
    {l \in ((n - 2) .. (n + MaxExtraBytes)) \cup {0, n + 8} : l >= 0}

\* bit sources: all ones, and a mixed pattern
BitSources(n) == {[i \in 1 .. n |-> TRUE], [i \in 1 .. n |-> ((i * i) \div 3) % 2 = 1]}

\* the lengths of the bit sources tried against a width of n bits
BitSourceLens(n) ==
    {l \in ((n - 2) .. (n + MaxExtraBits)) \cup {0, n - 8, n + 8} : l >= 0}

\* data literals: the zero store and a store whose 64 bytes all differ
ConstLiterals ==
    {ZeroData,
     [k \in 1 .. StoreWords |->
        FromLeBytes([j \in 1 .. 8 |-> 16 * (j - 1) + k], "little")]}

ConstInputs(log2) ==
    [kind : {"bytes"}, seq : UNION {ByteSources(l) : l \in ByteSourceLens(NBytes(log2))}]
    \cup [kind : {"bits"}, seq : UNION {BitSources(l) : l \in BitSourceLens(NBits(log2))}]
    \cup [kind : {"data"}, seq : ConstLiterals]

\* the register numbers of a u8
RegNumbers == 0 .. 255

MaxRegOps == 2

MaxMarkers == 2

MaxChunkLen == 2

\* the seeds split is started from
RatSeeds == {SeedZero, Seed42}

\* bytes of the chunks: one that the all-zero marker is made of, one that no marker holds
RatBytes == {0, 99}

\* chunks between markers: short ones, and one as long as a marker
RatChunks == SeqsUpTo(RatBytes, MaxChunkLen) \cup {SeedZero}

\* what follows the last marker: nothing, less than a marker, more than a marker
RatTails == {<<>>, <<0>>, <<99>>, [k \in 1 .. (MarkerLen + 1) |-> 99]}

\* the seed after i calls of next
RECURSIVE DigestPow(_, _)
DigestPow(seed, i) == IF i = 0 THEN seed ELSE Digest(DigestPow(seed, i - 1))

\* the i-th value next() produces from a seed
MarkerOf(seed, i) == DigestPow(seed, i - 1)

\* chunk_1, m_1, ..., chunk_n, m_n from position i on
RECURSIVE Marked(_, _, _)
Marked(seed, chunks, i) ==
    IF i > Len(chunks) THEN <<>>
    ELSE chunks[i] \o MarkerOf(seed, i) \o Marked(seed, chunks, i + 1)

MkRatInput(seed, chunks, tail) ==
    [seed |-> seed, chunks |-> chunks, tail |-> tail,
     bytes |-> Marked(seed, chunks, 1) \o tail]

RatInputs == {MkRatInput(seed, chunks, tail) :
                 seed \in RatSeeds, chunks \in SeqsUpTo(RatChunks, MaxMarkers),
                 tail \in RatTails}

\* the iterator has not been called
NoSplitCall == [made |-> FALSE, rest0 |-> <<>>, marker |-> <<>>, panic |-> FALSE, item |-> <<>>]

(***************************************************************************)
(* Initial values of the components a specification leaves untouched.      *)
(***************************************************************************)
NoI4With == [panic |-> FALSE, code |-> {}, len |-> 0]
NoI4Extract == [panic |-> FALSE, val |-> {}, len |-> 0]
NoSliceWith == [panic |-> FALSE, bytes |-> <<>>, len |-> 0]
NoSliceExtract == [panic |-> FALSE, val |-> {}, len |-> 0]

\* no extend, subref or iter has been called
NoPCall == [items |-> <<>>, a |-> 0, b |-> 0, buf0 |-> EmptyInput, view0 |-> EmptyInput,
            yield |-> <<>>]

IdleCodec ==
    /\ cpc = "idle"
    /\ cw = {}
    /\ cranges = <<>>
    /\ cval = {}
    /\ cwith = NoI4With
    /\ cext = NoI4Extract

IdleSlice ==
    /\ spc = "idle"
    /\ sbuf = <<>>
    /\ sranges = <<>>
    /\ sval = {}
    /\ swith = NoSliceWith
    /\ sext = NoSliceExtract

IdlePerm ==
    /\ ppc = "idle"
    /\ pargs = [code |-> <<>>, perms |-> [r |-> <<>>, w |-> <<>>, x |-> <<>>, nj |-> <<>>]]
    /\ pnew = [ref |-> None, owned |-> None]
    /\ buf = EmptyInput
    /\ view = EmptyInput
    /\ pop = "none"
    /\ pcall = NoPCall

IdleWriteAll ==
    /\ wpc = "idle"
    /\ wsink = [k |-> 0, extra |-> 0, failAt |-> 0, calls |-> 0, acc |-> EmptyInput]
    /\ wsink0 = EmptyInput
    /\ winput = EmptyInput
    /\ wview = EmptyInput
    /\ wlast = NoCall

IdleConst ==
    /\ kpc = "idle"
    /\ kendian = "little"
    /\ klog2 = 3
    /\ kin = [kind |-> "data", seq |-> ZeroData]
    /\ kconst = NoConstant
    /\ kbytes = <<>>
    /\ kbits = <<>>
    /\ kread = {}

IdleReg ==
    /\ gpc = "idle"
    /\ greg = 0
    /\ gcur = 0
    /\ gops = <<>>

IdleRatchet ==
    /\ hpc = "idle"
    /\ hin = MkRatInput(SeedZero, <<>>, <<>>)
    /\ hseed = SeedZero
    /\ hrest = <<>>
    /\ hout = <<>>
    /\ hlast = NoSplitCall

(***************************************************************************)
(* Fixed-word codec: draw a word, a range list and a value, then apply     *)
(* with, extract on the result, or extract on the word itself.             *)
(***************************************************************************)
InitCodec ==
    /\ overflowChecks \in BOOLEAN
    /\ cpc = "init"
    /\ cw \in CodeWords
    /\ cranges \in RangeLists
    /\ cval \in CodeValues
    /\ cwith = NoI4With
    /\ cext = NoI4Extract
    /\ IdleSlice
    /\ IdlePerm
    /\ IdleWriteAll
    /\ IdleConst
    /\ IdleReg
    /\ IdleRatchet

CodecWith ==
    /\ cpc = "init"
    /\ cwith' = I4With(cw, cranges, cval, overflowChecks)
    /\ cpc' = "with"
    /\ UNCHANGED <<overflowChecks, cw, cranges, cval, cext, sliceVars, permVars, waVars, constVars, regVars, ratVars>>

CodecExtract ==
    /\ cpc = "with"
    /\ ~cwith.panic
    /\ cext' = I4Extract(cwith.code, cranges, overflowChecks)
    /\ cpc' = "extract"
    /\ UNCHANGED <<overflowChecks, cw, cranges, cval, cwith, sliceVars, permVars, waVars, constVars, regVars, ratVars>>

CodecExtractWord ==
    /\ cpc = "init"
    /\ cext' = I4Extract(cw, cranges, overflowChecks)
    /\ cpc' = "rawext"
    /\ UNCHANGED <<overflowChecks, cw, cranges, cval, cwith, sliceVars, permVars, waVars, constVars, regVars, ratVars>>

NextCodec == CodecWith \/ CodecExtract \/ CodecExtractWord

SpecCodec == InitCodec /\ [][NextCodec]_vars

(***************************************************************************)
(* Byte-buffer codec: same three steps over a byte buffer.                 *)
(***************************************************************************)
InitSlice ==
    /\ overflowChecks \in BOOLEAN
    /\ spc = "init"
    /\ sbuf \in SliceBuffers
    /\ sranges \in ByteRangeLists
    /\ sval \in SliceValues
    /\ swith = NoSliceWith
    /\ sext = NoSliceExtract
    /\ IdleCodec
    /\ IdlePerm
    /\ IdleWriteAll
    /\ IdleConst
    /\ IdleReg
    /\ IdleRatchet

SliceDoWith ==
    /\ spc = "init"
    /\ swith' = SliceWith(sbuf, sranges, sval, overflowChecks)
    /\ spc' = "with"
    /\ UNCHANGED <<overflowChecks, sbuf, sranges, sval, sext, codecVars, permVars, waVars, constVars, regVars, ratVars>>

SliceDoExtract ==
    /\ spc = "with"
    /\ ~swith.panic
    /\ sext' = SliceExtract(swith.bytes, sranges, overflowChecks)
    /\ spc' = "extract"
    /\ UNCHANGED <<overflowChecks, sbuf, sranges, sval, swith, codecVars, permVars, waVars, constVars, regVars, ratVars>>

SliceDoExtractBuf ==
    /\ spc = "init"
    /\ sext' = SliceExtract(sbuf, sranges, overflowChecks)
    /\ spc' = "rawext"
    /\ UNCHANGED <<overflowChecks, sbuf, sranges, sval, swith, codecVars, permVars, waVars, constVars, regVars, ratVars>>

NextSlice == SliceDoWith \/ SliceDoExtract \/ SliceDoExtractBuf

SpecSlice == InitSlice /\ [][NextSlice]_vars

(***************************************************************************)
(* Permission buffer: construct an InputRef and an Input from the same     *)
(* parts, then apply the operations of the two types in any order.  A      *)
(* panic ends the run.                                                     *)
(***************************************************************************)
otherThanPerm == <<overflowChecks, codecVars, sliceVars, waVars, constVars, regVars, ratVars>>

InitPerm ==
    /\ overflowChecks = FALSE
    /\ ppc = "args"
    /\ pargs \in PermArgs
    /\ pnew = [ref |-> None, owned |-> None]
    /\ buf = EmptyInput
    /\ view = EmptyInput
    /\ pop = "none"
    /\ pcall = NoPCall
    /\ IdleCodec
    /\ IdleSlice
    /\ IdleWriteAll
    /\ IdleConst
    /\ IdleReg
    /\ IdleRatchet

PermNew ==
    /\ ppc = "args"
    /\ LET ref   == InputRefNew(pargs.code, pargs.perms)
           owned == InputNew(pargs.code, pargs.perms)
       IN  /\ pnew' = [ref |-> ref, owned |-> owned]
           /\ ppc' = IF ref.some /\ owned.some THEN "ready" ELSE "rejected"
           /\ view' = ref.val
           /\ buf' = owned.val
    /\ pop' = "new"
    /\ pcall' = NoPCall
    /\ UNCHANGED <<pargs, otherThanPerm>>

PermExtend ==
    /\ ppc = "ready"
    /\ \E items \in SeqsUpTo(Items, MaxExtend) :
          /\ Len(buf.code) + Len(items) <= MaxBufLen
          /\ buf' = InputExtend(buf, items)
          /\ pcall' = [NoPCall EXCEPT !.items = items, !.buf0 = buf]
    /\ pop' = "extend"
    /\ UNCHANGED <<ppc, pargs, pnew, view, otherThanPerm>>

PermWrite ==
    /\ ppc = "ready"
    /\ Len(buf.code) + Len(view.code) <= MaxBufLen
    /\ buf' = InputWrite(buf, view).buf
    /\ pop' = "write"
    /\ pcall' = NoPCall
    /\ UNCHANGED <<ppc, pargs, pnew, view, otherThanPerm>>

PermWriteAll ==
    /\ ppc = "ready"
    /\ Len(buf.code) + Len(view.code) <= MaxBufLen
    /\ LET res == InputWriteAll(buf, view)
       IN  /\ buf' = res.buf
           /\ ppc' = IF res.panic THEN "panic" ELSE ppc
    /\ pop' = "write_all"
    /\ pcall' = NoPCall
    /\ UNCHANGED <<pargs, pnew, view, otherThanPerm>>

PermSubref ==
    /\ ppc = "ready"
    /\ \E a, b \in 0 .. (MaxBufLen + 1) :
          LET res == Subref(view, a, b)
          IN  /\ view' = res.val
              /\ ppc' = IF res.panic THEN "panic" ELSE ppc
              /\ pcall' = [NoPCall EXCEPT !.a = a, !.b = b, !.view0 = view]
    /\ pop' = "subref"
    /\ UNCHANGED <<pargs, pnew, buf, otherThanPerm>>

PermSubrefFrom ==
    /\ ppc = "ready"
    /\ \E a \in 0 .. (MaxBufLen + 1) :
          LET res == SubrefFrom(view, a)
          IN  /\ view' = res.val
              /\ ppc' = IF res.panic THEN "panic" ELSE ppc
    /\ pop' = "subref_from"
    /\ pcall' = NoPCall
    /\ UNCHANGED <<pargs, pnew, buf, otherThanPerm>>

PermNest ==
    /\ ppc = "ready"
    /\ view' = Nest(view)
    /\ pop' = "nest"
    /\ pcall' = NoPCall
    /\ UNCHANGED <<ppc, pargs, pnew, buf, otherThanPerm>>

PermToOwned ==
    /\ ppc = "ready"
    /\ buf' = ToOwned(view)
    /\ pop' = "to_owned"
    /\ pcall' = NoPCall
    /\ UNCHANGED <<ppc, pargs, pnew, view, otherThanPerm>>

\* view.iter().collect()
PermIter ==
    /\ ppc = "ready"
    /\ pop' = "iter"
    /\ pcall' = [NoPCall EXCEPT !.view0 = view, !.yield = InputIter(view)]
    /\ UNCHANGED <<ppc, pargs, pnew, buf, view, otherThanPerm>>

PermAsRef ==
    /\ ppc = "ready"
    /\ view' = AsRef(buf)
    /\ pop' = "as_ref"
    /\ pcall' = NoPCall
    /\ UNCHANGED <<ppc, pargs, pnew, buf, otherThanPerm>>

NextPerm ==
    \/ PermNew
    \/ PermExtend
    \/ PermWrite
    \/ PermWriteAll
    \/ PermSubref
    \/ PermSubrefFrom
    \/ PermNest
    \/ PermToOwned
    \/ PermIter
    \/ PermAsRef

SpecPerm == InitPerm /\ [][NextPerm]_vars

(***************************************************************************)
(* InputStream::write_all over an arbitrary sink, one loop iteration per   *)
(* step.                                                                   *)
(***************************************************************************)
otherThanWriteAll == <<overflowChecks, codecVars, sliceVars, permVars, constVars, regVars, ratVars>>

InitWriteAll ==
    /\ overflowChecks = FALSE
    /\ wpc = "loop"
    /\ wsink \in WaSinks
    /\ wsink0 = wsink.acc
    /\ winput \in WaInputs
    /\ wview = winput
    /\ wlast = NoCall
    /\ IdleCodec
    /\ IdleSlice
    /\ IdlePerm
    /\ IdleConst
    /\ IdleReg
    /\ IdleRatchet

\* while i.code.len() > 0 { let x = self.write(i.nest())?; i = i.subref(x..); }
WriteAllIter ==
    /\ wpc = "loop"
    /\ Len(wview.code) > 0
    /\ LET res == SinkWrite(wsink, Nest(wview))
           nxt == WriteAllAdvance(wview, res.x)
       IN  /\ wsink' = res.sink
           /\ wlast' = [made |-> TRUE, offered |-> Nest(wview), err |-> res.err, x |-> res.x]
           /\ wpc' = WriteAllControl(res.err, nxt.panic)
           /\ wview' = IF res.err \/ nxt.panic THEN wview ELSE nxt.val
    /\ UNCHANGED <<wsink0, winput, otherThanWriteAll>>

\* Ok(())
WriteAllReturn ==
    /\ wpc = "loop"
    /\ ~(Len(wview.code) > 0)
    /\ wpc' = "done"
    /\ UNCHANGED <<wsink, wsink0, winput, wview, wlast, otherThanWriteAll>>

NextWriteAll == WriteAllIter \/ WriteAllReturn

SpecWriteAll == InitWriteAll /\ [][NextWriteAll]_vars

(***************************************************************************)
(* Constant: obtain a constant from bytes, from bits or from a data        *)
(* literal, then read it back with bytes(b) and bits(b).                   *)
(***************************************************************************)
otherThanConst == <<overflowChecks, codecVars, sliceVars, permVars, waVars, regVars, ratVars>>

InitConst ==
    /\ overflowChecks = FALSE
    /\ kpc = "init"
    /\ kendian \in {"little", "big"}
    /\ klog2 \in ConstLog2s
    /\ kin \in ConstInputs(klog2)
    /\ kconst = NoConstant
    /\ kbytes = <<>>
    /\ kbits = <<>>
    /\ kread = {}
    /\ IdleCodec
    /\ IdleSlice
    /\ IdlePerm
    /\ IdleWriteAll
    /\ IdleReg
    /\ IdleRatchet

ConstantFromBytes ==
    /\ kpc = "init"
    /\ kin.kind = "bytes"
    /\ kconst' = ConstFromBytes(klog2, kin.seq, kendian)
    /\ kpc' = "made"
    /\ UNCHANGED <<kendian, klog2, kin, kbytes, kbits, kread, otherThanConst>>

ConstantFromBits ==
    /\ kpc = "init"
    /\ kin.kind = "bits"
    /\ kconst' = ConstFromBits(klog2, kin.seq, kendian)
    /\ kpc' = "made"
    /\ UNCHANGED <<kendian, klog2, kin, kbytes, kbits, kread, otherThanConst>>

\* Constant { data: [...] }
ConstantLiteral ==
    /\ kpc = "init"
    /\ kin.kind = "data"
    /\ kconst' = SomeConstant(kin.seq)
    /\ kpc' = "made"
    /\ UNCHANGED <<kendian, klog2, kin, kbytes, kbits, kread, otherThanConst>>

ConstantBytes ==
    /\ kpc = "made"
    /\ kconst.some
    /\ "bytes" \notin kread
    /\ kbytes' = ConstBytes(kconst.data, klog2, kendian)
    /\ kread' = kread \cup {"bytes"}
    /\ UNCHANGED <<kpc, kendian, klog2, kin, kconst, kbits, otherThanConst>>

ConstantBits ==
    /\ kpc = "made"
    /\ kconst.some
    /\ "bits" \notin kread
    /\ kbits' = ConstBits(kconst.data, klog2, kendian)
    /\ kread' = kread \cup {"bits"}
    /\ UNCHANGED <<kpc, kendian, klog2, kin, kconst, kbytes, otherThanConst>>

NextConst ==
    \/ ConstantFromBytes
    \/ ConstantFromBits
    \/ ConstantLiteral
    \/ ConstantBytes
    \/ ConstantBits

SpecConst == InitConst /\ [][NextConst]_vars

(***************************************************************************)
(* Reg: start from any register number and apply r32 and                   *)
(* r32_swap_0_and_31 in any order, each to the result of the one before.   *)
(***************************************************************************)
otherThanReg == <<overflowChecks, codecVars, sliceVars, permVars, waVars, constVars, ratVars>>

InitReg ==
    /\ overflowChecks = FALSE
    /\ gpc = "init"
    /\ greg \in RegNumbers
    /\ gcur = greg
    /\ gops = <<>>
    /\ IdleCodec
    /\ IdleSlice
    /\ IdlePerm
    /\ IdleWriteAll
    /\ IdleConst
    /\ IdleRatchet

RegR32 ==
    /\ Len(gops) < MaxRegOps
    /\ gpc \in {"init", "applied"}
    /\ gcur' = R32(gcur)
    /\ gops' = Append(gops, "r32")
    /\ gpc' = "applied"
    /\ UNCHANGED <<greg, otherThanReg>>

RegSwap ==
    /\ Len(gops) < MaxRegOps
    /\ gpc \in {"init", "applied"}
    /\ gcur' = R32Swap0And31(gcur)
    /\ gops' = Append(gops, "swap")
    /\ gpc' = "applied"
    /\ UNCHANGED <<greg, otherThanReg>>

NextReg == RegR32 \/ RegSwap

SpecReg == InitReg /\ [][NextReg]_vars

(***************************************************************************)
(* Ratchet::split: the iterator is called until it returns None; one call  *)
(* of the closure per step.  A panic ends the run.                         *)
(***************************************************************************)
otherThanRatchet == <<overflowChecks, codecVars, sliceVars, permVars, waVars, constVars, regVars>>

InitRatchet ==
    /\ overflowChecks = FALSE
    /\ hpc = "iter"
    /\ hin \in RatInputs
    /\ hseed = hin.seed
    /\ hrest = hin.bytes
    /\ hout = <<>>
    /\ hlast = NoSplitCall
    /\ IdleCodec
    /\ IdleSlice
    /\ IdlePerm
    /\ IdleWriteAll
    /\ IdleConst
    /\ IdleReg

\* a call that finds a.len() != 0
SplitYield ==
    /\ hpc = "iter"
    /\ Len(hrest) # 0
    /\ LET res == SplitCall(hseed, hrest)
       IN  /\ hpc' = IF res.panic THEN "panic" ELSE "iter"
           /\ hseed' = res.seed
           /\ hrest' = res.rest
           /\ hout' = IF res.panic THEN hout ELSE Append(hout, res.item)
           /\ hlast' = [made |-> TRUE, rest0 |-> hrest, marker |-> res.marker,
                        panic |-> res.panic, item |-> res.item]
    /\ UNCHANGED <<hin, otherThanRatchet>>

\* if a.len() == 0 { return None; }
SplitEnd ==
    /\ hpc = "iter"
    /\ Len(hrest) = 0
    /\ hpc' = "end"
    /\ UNCHANGED <<hin, hseed, hrest, hout, hlast, otherThanRatchet>>

NextRatchet == SplitYield \/ SplitEnd

SpecRatchet == InitRatchet /\ [][NextRatchet]_vars

(***************************************************************************)
(* Range-list vocabulary used by the codec properties.                     *)
(***************************************************************************)
RECURSIVE TotalWidth(_)
TotalWidth(R) == IF R = <<>> THEN 0 ELSE RWidth(Head(R)) + TotalWidth(Tail(R))

\* summed width of the ranges before the k-th
WidthBefore(R, k) == TotalWidth(SubSeq(R, 1, k - 1))

NonOverlapping(R) ==
    \A i, j \in 1 .. Len(R) :
        i < j => (REnd(R[i]) <= RStart(R[j]) \/ REnd(R[j]) <= RStart(R[i]))

Covered(R) == UNION {RStart(R[k]) .. (REnd(R[k]) - 1) : k \in 1 .. Len(R)}

(***************************************************************************)
(* Properties of the fixed-word codec.                                     *)
(***************************************************************************)

\* C1: codec round trip - for every word w, every list R of non-overlapping
\* bit ranges inside [0,32) and every value v, with(R, v) followed by
\* extract(R) returns v masked to the total width of R.
C1_RoundTrip ==
    (cpc = "extract" /\ NonOverlapping(cranges)) =>
        (~cext.panic /\ cext.val = LowBits(cval, TotalWidth(cranges)))

\* C2: with places the value least-significant range first - for the k-th
\* range [s,e) of a non-overlapping list, bit s+j of the result equals bit
\* L_k + j of the value, L_k being the summed width of the earlier ranges.
C2_LsbFirstPlacement ==
    (cpc = "with" /\ ~cwith.panic /\ NonOverlapping(cranges)) =>
        \A k \in 1 .. Len(cranges) :
            \A j \in 0 .. (RWidth(cranges[k]) - 1) :
                (RStart(cranges[k]) + j \in cwith.code)
                    <=> (WidthBefore(cranges, k) + j \in cval)

\* C3: frame of with - every bit of the word that lies in none of the given
\* ranges keeps its prior value in the word that with returns.
C3_WithFrame ==
    (cpc = "with" /\ ~cwith.panic) =>
        (cwith.code \ Covered(cranges)) = (cw \ Covered(cranges))

\* with has rewritten some bits of a word that also has set bits outside
\* the ranges
C3_Witness ==
    /\ cpc = "with"
    /\ ~cwith.panic
    /\ cwith.code # cw
    /\ cw \ Covered(cranges) # {}
    /\ Len(cranges) = 2

\* C18: masking semantics of with - value bits at positions >= the total
\* width of a non-overlapping range list are discarded, with(R, v) equals
\* with(R, v & mask(total_width(R))), and no failure occurs.
C18_MaskingSemantics ==
    (cpc = "with" /\ NonOverlapping(cranges)) =>
        /\ ~cwith.panic
        /\ cwith.code =
              I4With(cw, cranges, LowBits(cval, TotalWidth(cranges)), overflowChecks).code

\* the list R with its k-th range removed
RemoveAt(R, k) == SubSeq(R, 1, k - 1) \o SubSeq(R, k + 1, Len(R))

ZeroWidthAt(R) == {k \in 1 .. Len(R) : RWidth(R[k]) = 0}

\* C19: a zero-width range [s,s) is a no-op - at any position of the list,
\* with and extract return the same result as over the list without it.
C19_ZeroWidthNoOp ==
    \A k \in ZeroWidthAt(cranges) :
        /\ cpc = "with" =>
              LET without == I4With(cw, RemoveAt(cranges, k), cval, overflowChecks)
              IN  cwith.panic = without.panic /\ cwith.code = without.code
        /\ cpc = "rawext" =>
              LET without == I4Extract(cw, RemoveAt(cranges, k), overflowChecks)
              IN  cext.panic = without.panic /\ cext.val = without.val

\* the ranges of R that cover bit p
Covering(R, p) == {k \in 1 .. Len(R) : RStart(R[k]) <= p /\ p < REnd(R[k])}

LastOf(K) == CHOOSE k \in K : \A m \in K : m <= k

\* the bits the k-th range of R writes on its own, given the value
WrittenBy(R, k, val) ==
    I4WithStep([panic |-> FALSE, code |-> {}, len |-> WidthBefore(R, k)],
               R[k], val, FALSE).code

\* C20: with overlapping ranges, with does not fail, and every bit covered
\* by more than one range holds the value bit assigned by the last covering
\* range in list order.
C20_OverlapLastWins ==
    (cpc = "with" /\ ~NonOverlapping(cranges)) =>
        /\ ~cwith.panic
        /\ \A p \in Word(U32) :
              Cardinality(Covering(cranges, p)) > 1 =>
                  (p \in cwith.code
                     <=> p \in WrittenBy(cranges, LastOf(Covering(cranges, p)), cval))

\* the range list is the single range [0,32)
FullWordRange ==
    Len(cranges) = 1 /\ RStart(cranges[1]) = 0 /\ REnd(cranges[1]) = 32

\* C28: a range list whose total width is the full 32-bit word is handled
\* without overflow - with(w, [0,32), v) returns the word v and
\* extract([0,32)) returns the whole word, for every w and v.
C28_FullWidthRange ==
    FullWordRange =>
        /\ cpc = "with" => (~cwith.panic /\ cwith.code = cval)
        /\ cpc = "rawext" => (~cext.panic /\ cext.val = cw)

(***************************************************************************)
(* Properties of the byte-buffer codec.                                    *)
(***************************************************************************)
\* every byte index of every range is inside the buffer
InBounds(R, bytes) == \A k \in 1 .. Len(R) : REnd(R[k]) <= Len(bytes)

\* some range contains a byte index >= the buffer length
SomeIndexOutside(R, bytes) ==
    \E k \in 1 .. Len(R) : RStart(R[k]) < REnd(R[k]) /\ REnd(R[k]) > Len(bytes)

\* the selected bytes, ranges in list order, index ascending inside a range
RECURSIVE SelectedBytes(_, _)
SelectedBytes(R, bytes) ==
    IF R = <<>> THEN <<>>
    ELSE SubSeq(bytes, RStart(Head(R)) + 1, REnd(Head(R))) \o SelectedBytes(Tail(R), bytes)

\* the j-th byte of the sequence supplies bits [8j, 8j+8), j counted from 0
ConcatLowToHigh(bs) ==
    UNION {{8 * (j - 1) + b : b \in ByteBits(bs[j])} : j \in 1 .. Len(bs)}

\* C8: byte-buffer round trip - over non-overlapping in-bounds byte ranges of
\* total width at most 8 bytes, with(R, v) followed by extract(R) returns v
\* masked to 8 * total_width(R) bits.
C8_SliceRoundTrip ==
    (/\ spc = "extract"
     /\ NonOverlapping(sranges)
     /\ InBounds(sranges, sbuf)
     /\ TotalWidth(sranges) <= 8) =>
        (~sext.panic /\ sext.val = LowBits(sval, 8 * TotalWidth(sranges)))

\* C9: extract returns the concatenation of the selected bytes, low to high,
\* byte index i of a range reading buffer byte i.
C9_SliceExtractConcat ==
    (/\ spc = "rawext"
     /\ InBounds(sranges, sbuf)
     /\ TotalWidth(sranges) <= 8) =>
        (~sext.panic /\ sext.val = ConcatLowToHigh(SelectedBytes(sranges, sbuf)))

\* C10: a range containing a byte index >= the buffer length makes with and
\* extract fail with an out-of-bounds failure.
C10_SliceOutOfBounds ==
    SomeIndexOutside(sranges, sbuf) =>
        /\ (spc = "with" => swith.panic)
        /\ (spc = "rawext" => sext.panic)

(***************************************************************************)
(* Properties of the permission buffer.                                    *)
(***************************************************************************)
SameLength(i) ==
    /\ Len(i.r) = Len(i.code)
    /\ Len(i.w) = Len(i.code)
    /\ Len(i.x) = Len(i.code)
    /\ Len(i.nj) = Len(i.code)

\* C4: length invariant - from any successful construction, after any
\* sequence of extend, write, write_all, subref, nest, to_owned and as_ref,
\* code and the four tag sequences of the buffer and of the view have the
\* same length.
C4_LengthInvariant ==
    ppc \in {"ready", "panic"} => (SameLength(buf) /\ SameLength(view))

\* a buffer grown past what it was constructed with, and a proper sub-view
C4_Witness ==
    /\ ppc = "ready"
    /\ Len(buf.code) > Len(pargs.code)
    /\ Len(buf.code) = MaxBufLen
    /\ Len(view.code) > 0
    /\ Len(view.code) < Len(pargs.code)

PartsAgree(a) ==
    /\ Len(a.perms.r) = Len(a.code)
    /\ Len(a.perms.w) = Len(a.code)
    /\ Len(a.perms.x) = Len(a.code)
    /\ Len(a.perms.nj) = Len(a.code)

\* C5: construction rejection - InputRef::new and Input::new return a
\* buffer exactly when each of the four tag sequences is as long as the
\* code, and None otherwise.
C5_NewRejectsMismatch ==
    ppc \notin {"args", "idle"} =>
        /\ pnew.ref.some <=> PartsAgree(pargs)
        /\ pnew.owned.some <=> PartsAgree(pargs)
        /\ pnew.ref.some =>
              pnew.ref.val = [code |-> pargs.code, r |-> pargs.perms.r, w |-> pargs.perms.w,
                              x |-> pargs.perms.x, nj |-> pargs.perms.nj]
        /\ pnew.owned.some => pnew.owned.val = pnew.ref.val

\* new has turned down parts where only nj has the wrong length
C5_Witness ==
    /\ ppc = "rejected"
    /\ ~pnew.ref.some
    /\ ~pnew.owned.some
    /\ Len(pargs.code) = 2
    /\ Len(pargs.perms.r) = 2
    /\ Len(pargs.perms.w) = 2
    /\ Len(pargs.perms.x) = 2
    /\ Len(pargs.perms.nj) = 1

\* the (byte, tags) tuple at position k (from 1) of a buffer or view
ElementAt(i, k) == [c |-> i.code[k], r |-> i.r[k], w |-> i.w[k], x |-> i.x[k], nj |-> i.nj[k]]

\* C22: extend appends end-to-end - after extend over n (byte, tags) items
\* the buffer is n longer, the first old-length positions of code and of
\* the four tag sequences are unchanged, and position old_len + k holds the
\* k-th item's byte and its r, w, x, nj tags.
C22_ExtendAppends ==
    pop = "extend" =>
        LET old == pcall.buf0
            n   == Len(pcall.items)
            m   == Len(old.code)
        IN  /\ Len(buf.code) = m + n
            /\ SameLength(buf)
            /\ \A k \in 1 .. m : ElementAt(buf, k) = ElementAt(old, k)
            /\ \A k \in 1 .. n : ElementAt(buf, m + k) = pcall.items[k]

\* two different items were appended to a buffer that was not empty
C22_Witness ==
    /\ pop = "extend"
    /\ Len(pcall.items) = 2
    /\ pcall.items[1] # pcall.items[2]
    /\ Len(pcall.buf0.code) >= 1
    /\ Len(buf.code) = Len(pcall.buf0.code) + 2

\* C23: iter yields exactly len() tuples, the k-th being
\* (code[k], {r[k], w[k], x[k], nj[k]}), leaves the view unchanged, and
\* yields the same sequence whenever it is restarted on that view.
C23_IterZipsPositionally ==
    pop = "iter" =>
        /\ view = pcall.view0
        /\ Len(pcall.yield) = Len(view.code)
        /\ \A k \in 1 .. Len(view.code) : pcall.yield[k] = ElementAt(view, k)

\* iter has run over a view of two elements that differ
C23_Witness ==
    /\ pop = "iter"
    /\ Len(view.code) = 2
    /\ Len(pcall.yield) = 2
    /\ pcall.yield[1] # pcall.yield[2]
    /\ pcall.yield[1].r # pcall.yield[1].w

\* C24: subref(a..b) with a <= b <= len() returns a view of length b - a
\* whose k-th element, byte and all four tags, is element a + k of the
\* original view.
C24_SubrefTakesRange ==
    (pop = "subref" /\ pcall.a <= pcall.b /\ pcall.b <= Len(pcall.view0.code)) =>
        /\ ppc = "ready"
        /\ Len(view.code) = pcall.b - pcall.a
        /\ SameLength(view)
        /\ \A k \in 1 .. (pcall.b - pcall.a) :
              ElementAt(view, k) = ElementAt(pcall.view0, pcall.a + k)

\* a proper sub-range that starts after the first element was taken
C24_Witness ==
    /\ pop = "subref"
    /\ ppc = "ready"
    /\ pcall.a = 1
    /\ pcall.b = 2
    /\ Len(pcall.view0.code) = 3
    /\ Len(view.code) = 1
    /\ view.code[1] # pcall.view0.code[1]

(***************************************************************************)
(* Properties of write_all.                                                *)
(***************************************************************************)
\* C6: a write that reports consuming 0 bytes while bytes remain is fatal -
\* write_all stops instead of calling write again on the same suffix.
C6_ZeroProgressIsFatal ==
    (wlast.made /\ ~wlast.err /\ wlast.x = 0 /\ Len(wlast.offered.code) > 0) =>
        wpc = "panic"

\* the sink appends what it consumes, at most k >= 1 bytes per call
AppendingSink == wsink.k >= 1 /\ wsink.extra = 0 /\ wsink.failAt = 0

\* C7: write_all composition - over a sink that appends what it consumes,
\* at most k >= 1 bytes per call, every call is offered exactly the
\* not-yet-consumed suffix, every call makes progress, and write_all ends
\* with the sink holding what a single write of the whole view leaves.
C7_WriteAllComposition ==
    (wpc # "idle" /\ AppendingSink) =>
        /\ wpc \in {"loop", "done"}
        /\ InputWrite(wsink.acc, wview).buf = InputWrite(wsink0, winput).buf
        /\ wlast.made => Len(wview.code) < Len(wlast.offered.code)
        /\ wpc = "done" => wsink.acc = InputWrite(wsink0, winput).buf

\* write_all has returned after more than one partial write
C7_Witness ==
    /\ wpc = "done"
    /\ AppendingSink
    /\ wsink.k < Len(winput.code)
    /\ wsink.calls >= 2
    /\ wsink0 # EmptyInput

\* the sink has failed on its first or on a later call
WriteFailed == wlast.made /\ wlast.err

\* C21: error propagation - if a write call fails during write_all,
\* write_all returns that error at once, makes no further write call, and
\* what the earlier write calls consumed stays committed in the sink: the
\* failing step leaves the sink's content and the remaining view as they
\* were, and nothing changes afterwards.
C21_WriteErrorPropagates ==
    /\ [](WriteFailed => (wpc = "err" /\ wsink.calls = wsink.failAt))
    /\ [][(wlast'.made /\ wlast'.err) =>
            (wpc' = "err" /\ wsink'.acc = wsink.acc /\ wview' = wview)]_vars
    /\ [][wpc = "err" => UNCHANGED waVars]_vars

\* the second write has failed after the first one consumed part of the view
C21_Witness ==
    /\ wpc = "err"
    /\ WriteFailed
    /\ wsink.failAt = 2
    /\ wsink.calls = 2
    /\ wsink.extra = 0
    /\ wsink.acc = InputWrite(wsink0, Prefix(winput, wsink.k)).buf
    /\ wsink.k >= 1
    /\ Len(wview.code) >= 1

\* the write reported more than the view it was offered holds
OverReported == wlast.made /\ ~wlast.err /\ wlast.x > Len(wlast.offered.code)

\* the views that end where v ends
SuffixesOf(v) == {SubrefFrom(v, a).val : a \in 0 .. Len(v.code)}

\* C29: over-reporting sink - if a write reports consuming more bytes than
\* the view it was offered, write_all stops at that step with a bounds-check
\* failure: that write is the last call made, and no view offered to the
\* sink extends past the end of the original input.
C29_OverReportPanics ==
    /\ OverReported <=> wpc = "panic"
    /\ wlast.made => wlast.offered \in SuffixesOf(winput)
    /\ wpc # "idle" => wview \in SuffixesOf(winput)

\* the second write over-reported after the first consumed part of the view
C29_Witness ==
    /\ wpc = "panic"
    /\ OverReported
    /\ wsink.calls = 2
    /\ wsink.extra = 1
    /\ Len(wlast.offered.code) < Len(winput.code)
    /\ Len(wlast.offered.code) >= 1

(***************************************************************************)
(* Properties of Constant.                                                 *)
(***************************************************************************)
FromBytesDone == kpc = "made" /\ kin.kind = "bytes"
FromBitsDone == kpc = "made" /\ kin.kind = "bits"

\* bit j (0 = least significant) of the byte a
BitOfByte(a, j) == (a \div (2 ^ j)) % 2 = 1

\* byte m (0..63) of the backing store: word 0 first, each word in native order
StoreByte(data, m, endian) ==
    BitsByte(Shr(data[(m \div 8) + 1], NeByteShift((m % 8) + 1, endian), U64))

\* C11: byte round trip - for log2 in 3..9 and a byte sequence xs of at least
\* 2^(log2-3) bytes, from_bytes(b, xs) succeeds and bytes(b) of the result is
\* the first 2^(log2-3) bytes of xs.
C11_BytesRoundTrip ==
    (FromBytesDone /\ Len(kin.seq) >= NBytes(klog2)) =>
        /\ kconst.some
        /\ "bytes" \in kread => kbytes = SubSeq(kin.seq, 1, NBytes(klog2))

\* log2 = 6 and xs = [1..8] read back as [1..8]
C11_Witness ==
    /\ FromBytesDone
    /\ klog2 = 6
    /\ kin.seq = <<1, 2, 3, 4, 5, 6, 7, 8>>
    /\ "bytes" \in kread
    /\ kbytes = <<1, 2, 3, 4, 5, 6, 7, 8>>

\* C12: bit round trip - for log2 in 3..9 and an LSB-first bit sequence of
\* length 2^log2, from_bits succeeds, bits(b) returns the sequence and
\* bytes(b) is the sequence packed 8 bits per byte, first bit of a group as
\* bit 0.
C12_BitsRoundTrip ==
    (FromBitsDone /\ Len(kin.seq) = NBits(klog2)) =>
        /\ kconst.some
        /\ "bits" \in kread => kbits = kin.seq
        /\ "bytes" \in kread =>
              /\ Len(kbytes) = NBytes(klog2)
              /\ \A k \in 1 .. NBytes(klog2) : \A j \in 0 .. 7 :
                    BitOfByte(kbytes[k], j) <=> kin.seq[8 * (k - 1) + j + 1]

\* eight 1-bits at log2 = 3 give bytes [0xFF] and the same eight bits
C12_Witness ==
    /\ FromBitsDone
    /\ klog2 = 3
    /\ kin.seq = <<TRUE, TRUE, TRUE, TRUE, TRUE, TRUE, TRUE, TRUE>>
    /\ kread = {"bytes", "bits"}
    /\ kbytes = <<255>>
    /\ kbits = kin.seq

\* C13: from_bytes keeps exactly the first 2^(log2-3) bytes of xs and
\* zero-fills the rest of the store - after a successful call every store
\* byte at index >= 2^(log2-3) is zero, also when xs is longer than required.
C13_RestZeroFilled ==
    (FromBytesDone /\ kconst.some) =>
        \A m \in NBytes(klog2) .. (StoreBytes - 1) :
            StoreByte(kconst.data, m, kendian) = 0

\* C14: from_bytes returns None exactly when xs yields fewer than
\* 2^(log2-3) bytes.
C14_FromBytesNone ==
    FromBytesDone => (~kconst.some <=> Len(kin.seq) < NBytes(klog2))

\* a source one byte short of 8 bytes has been turned down
C14_Witness ==
    /\ FromBytesDone
    /\ klog2 = 6
    /\ Len(kin.seq) = 7
    /\ ~kconst.some

\* C15: from_bits returns None exactly when the bit sequence yields fewer
\* than 2^log2 bits, a partial final byte included.
C15_FromBitsNone ==
    FromBitsDone => (~kconst.some <=> Len(kin.seq) < NBits(klog2))

\* a source one bit short of 16 bits (a partial final byte) has been turned down
C15_Witness ==
    /\ FromBitsDone
    /\ klog2 = 4
    /\ Len(kin.seq) = 15
    /\ ~kconst.some

\* C16: bytes(b) yields exactly 2^(log2-3) bytes, the first bytes of the
\* backing store, word 0 first, each word in native byte order.
C16_BytesOfStore ==
    "bytes" \in kread =>
        /\ Len(kbytes) = NBytes(klog2)
        /\ \A m \in 0 .. (NBytes(klog2) - 1) :
              kbytes[m + 1] = StoreByte(kconst.data, m, kendian)

\* 16 bytes read from a literal whose store bytes all differ
C16_Witness ==
    /\ kpc = "made"
    /\ kin.kind = "data"
    /\ kin.seq # ZeroData
    /\ klog2 = 7
    /\ "bytes" \in kread
    /\ kendian = "big"

\* C17: bits(b) yields exactly 2^log2 booleans, element 8k+j being bit j
\* (bit 0 least significant) of the k-th byte of bytes(b).
C17_BitsOfBytes ==
    kread = {"bytes", "bits"} =>
        /\ Len(kbits) = NBits(klog2)
        /\ \A k \in 0 .. (NBytes(klog2) - 1) : \A j \in 0 .. 7 :
              kbits[8 * k + j + 1] <=> BitOfByte(kbytes[k + 1], j)

\* 32 bits read from a literal whose store bytes all differ
C17_Witness ==
    /\ kpc = "made"
    /\ kin.kind = "data"
    /\ kin.seq # ZeroData
    /\ klog2 = 5
    /\ kread = {"bytes", "bits"}
    /\ Len(kbits) = 32

(***************************************************************************)
(* Properties of Reg.                                                      *)
(***************************************************************************)
\* C25: r32_swap_0_and_31 maps Reg(0) to Reg(31), Reg(31) to Reg(0) and
\* every Reg(v) with 1 <= v <= 30 to itself; applied twice to a register
\* in 0..31 it returns that register.
C25_SwapIsInvolution ==
    greg \in 0 .. 31 =>
        /\ gops = <<"swap">> =>
              /\ greg = 0 => gcur = 31
              /\ greg = 31 => gcur = 0
              /\ greg \in 1 .. 30 => gcur = greg
        /\ gops = <<"swap", "swap">> => gcur = greg

\* Reg(31) has been swapped twice
C25_Witness ==
    /\ gops = <<"swap", "swap">>
    /\ greg = 31
    /\ gcur = 31

\* C26: r32 returns Reg(n mod 32) for every register number n in 0..255
\* (Reg(35) gives Reg(3)): the result is in 0..31, differs from n by a
\* multiple of 32, and a second r32 leaves it as it is.
C26_R32Normalizes ==
    (gops # <<>> /\ \A k \in 1 .. Len(gops) : gops[k] = "r32") =>
        /\ gcur \in 0 .. 31
        /\ \E q \in 0 .. 7 : greg = 32 * q + gcur
        /\ greg = 35 => gcur = 3

\* Reg(35) has been normalised twice
C26_Witness ==
    /\ gops = <<"r32", "r32">>
    /\ greg = 35
    /\ gcur = 3

(***************************************************************************)
(* Properties of Ratchet::split.                                           *)
(***************************************************************************)
\* the marker n occurs in a at offset i (from 0)
OccursAt(a, n, i) == i + Len(n) <= Len(a) /\ SubSeq(a, i + 1, i + Len(n)) = n

Contains(a, n) == \E i \in 0 .. Len(a) : OccursAt(a, n, i)

IsPrefixOf(p, q) == Len(p) <= Len(q) /\ SubSeq(q, 1, Len(p)) = p

\* the input is chunk_1, m_1, ..., chunk_n, m_n and nothing else
MarkedInput == hpc # "idle" /\ hin.tail = <<>>

NoChunkContainsItsMarker ==
    \A i \in 1 .. Len(hin.chunks) : ~Contains(hin.chunks[i], MarkerOf(hin.seed, i))

\* m_i occurs nowhere from the start of chunk_i on before the end of
\* chunk_i: not inside chunk_i, and not across its end into m_i
NoMarkerBeginsInItsChunk ==
    \A i \in 1 .. Len(hin.chunks) :
        \A j \in 0 .. (Len(hin.chunks[i]) - 1) :
            ~OccursAt(Marked(hin.seed, hin.chunks, i), MarkerOf(hin.seed, i), j)

\* split has yielded the chunks so far, and all of them once it has ended
YieldsTheChunks ==
    /\ hpc # "panic"
    /\ IsPrefixOf(hout, hin.chunks)
    /\ hpc = "end" => hout = hin.chunks

\* C27 as stated: on an input chunk_1, m_1, ..., chunk_n, m_n, m_i being the
\* i-th value of next() from the same seed and no chunk containing its
\* marker, split yields exactly chunk_1, ..., chunk_n in order, then ends.
C27_SplitYieldsChunks ==
    (MarkedInput /\ NoChunkContainsItsMarker) => YieldsTheChunks

\* C27 as amended: the same, for inputs where no occurrence of m_i begins
\* inside chunk_i, whether it lies within chunk_i or runs over its end into
\* the marker that follows.
C27_SplitYieldsChunksAmended ==
    (MarkedInput /\ NoMarkerBeginsInItsChunk) => YieldsTheChunks

\* split has ended after two chunks, the first holding a byte of its marker
C27_Witness ==
    /\ hpc = "end"
    /\ hin.tail = <<>>
    /\ hin.seed = SeedZero
    /\ NoMarkerBeginsInItsChunk
    /\ Len(hin.chunks) = 2
    /\ hin.chunks[1] = <<0, 99>>
    /\ hin.chunks[2] # <<>>
    /\ hout = hin.chunks

\* C30: split never fails and always ends - when the remaining input holds
\* no occurrence of the next marker (also when it is shorter than 32 bytes)
\* the whole remainder is yielded as the final chunk and the iterator then
\* returns None.
C30_SplitNeverFails ==
    /\ hpc # "panic"
    /\ (hlast.made /\ ~Contains(hlast.rest0, hlast.marker)) =>
          (~hlast.panic /\ hlast.item = hlast.rest0 /\ hrest = <<>>)

====
